---- MODULE Spec2Model ----
(***************************************************************************)
(* StudyStack (tracker.py): a countdown timer kept in the UI session       *)
(* state, a CSV history file rewritten whole on every save, and a          *)
(* dashboard that re-reads the file.                                       *)
(*                                                                         *)
(* One script run of the UI framework is one action.  The run either ends  *)
(* in st.rerun() (pause, start, tick, expiry) or runs to the end of the    *)
(* script (set/reset, idle refresh), in which case the dashboard tab       *)
(* loads the history.  A click made while a run sleeps is served by the    *)
(* next run, so Pause and Set / Reset interleave with the ticks.           *)
(* What the dashboard computes from the history is followed in SpecDash.   *)
(*                                                                         *)
(* Units: the timer counts seconds.  A duration handed to save_session is  *)
(* a number of minutes; the model carries it in thousandths of a minute    *)
(* and the stored, rounded value in hundredths of a minute.                *)
(***************************************************************************)
EXTENDS Integers, Sequences, FiniteSets, TLC

VARIABLES
    time_left,      \* st.session_state.time_left (seconds)
    timer_running,  \* st.session_state.timer_running
    initial_time,   \* st.session_state.initial_time (seconds)
    break_count,    \* st.session_state.break_count
    file,           \* the content of DATA_FILE on disk
    total,          \* history: total seconds of the last Set / Reset
    ticks,          \* history: ticks taken since the last Set / Reset
    pauses,         \* history: pause clicks since the last Set / Reset
    expiries,       \* history: sessions saved since the last Set / Reset
    last,           \* history: the last operation and the phase it started in
    writers,        \* the save_session calls in progress, one per process
    dash            \* what the dashboard tab computed when it last ran

vars == <<time_left, timer_running, initial_time, break_count, file,
          total, ticks, pauses, expiries, last, writers, dash>>

timerVars == <<time_left, timer_running, initial_time, break_count>>
histVars == <<total, ticks, pauses, expiries>>

-----------------------------------------------------------------------------
(* Bounds of the model *)

\* longest countdown, in minutes, that the model lets run
MaxRunMinutes == 1
\* pause clicks explored per configuration
MaxBreaks == 1
\* rows the history file may hold before the model stops adding to it
MaxRows == 2

\* values of the hours and minutes widgets that are explored (the widgets
\* allow 0..24 and 0..59)
HourChoices == {0, 1}
MinuteChoices == {0, 1, 2}

-----------------------------------------------------------------------------
(* The CSV file and the DataFrame *)

Columns == <<"Date", "Subject", "Topic", "Duration_Minutes", "Breaks">>
LegacyColumns == <<"Date", "Subject", "Topic", "Duration_Minutes">>
TextColumns == {"Subject", "Topic"}

Range(s) == {s[i] : i \in 1..Len(s)}

\* Field texts that read_csv takes for a missing value (of pandas' default
\* list, the ones the label alphabet can produce).
NAValues == {"", "NA"}

\* Field texts that read_csv parses as a number, with the number they denote
\* and the text to_csv writes for that number.
IntTexts == {"07", "7"}
FloatTexts == {"7.0"}
NumOf == ("07" :> 7) @@ ("7" :> 7) @@ ("7.0" :> 7)
IntRepr == (7 :> "7")
FloatRepr == (7 :> "7.0")

NaN == [k |-> "nan", v |-> ""]
Str(t) == [k |-> "str", v |-> t]

\* The dtype read_csv infers for a column of field texts.
ColumnKind(texts) ==
    LET present == {i \in 1..Len(texts) : texts[i] \notin NAValues}
    IN  IF present = {} THEN "float"
        ELSE IF \A i \in present : texts[i] \in IntTexts
             THEN IF Cardinality(present) = Len(texts) THEN "int" ELSE "float"
        ELSE IF \A i \in present : texts[i] \in IntTexts \cup FloatTexts
             THEN "float"
        ELSE "object"

\* The value read_csv gives one field of a column of the given dtype.
ParseCell(t, kind) ==
    IF t \in NAValues THEN NaN
    ELSE IF kind = "int" THEN [k |-> "int", v |-> IntRepr[NumOf[t]]]
    ELSE IF kind = "float" THEN [k |-> "float", v |-> FloatRepr[NumOf[t]]]
    ELSE Str(t)

\* The field text to_csv writes for a cell (na_rep is the empty string).
FormatCell(c) == IF c.k = "nan" THEN "" ELSE c.v

ColumnTexts(lines, c) == [i \in 1..Len(lines) |-> lines[i][c]]

\* pd.read_csv(DATA_FILE): text columns go through dtype inference; the
\* Date text, the decimal duration and the integer break count read back as
\* written.
read_csv(f) ==
    [columns |-> f.header,
     rows |-> [i \in 1..Len(f.lines) |->
                 [c \in Range(f.header) |->
                    IF c \in TextColumns
                    THEN ParseCell(f.lines[i][c],
                                   ColumnKind(ColumnTexts(f.lines, c)))
                    ELSE f.lines[i][c]]]]

EmptyFrame == [columns |-> Columns, rows |-> <<>>]

\* load_data without lines 17-18: the file is returned as read.
load_data_as_read(f) ==
    IF f.exists THEN read_csv(f) ELSE EmptyFrame

load_data(f) ==
    IF f.exists
    THEN LET df == read_csv(f)
         IN  IF "Breaks" \notin Range(df.columns)
             THEN [columns |-> Append(df.columns, "Breaks"),
                   rows |-> [i \in 1..Len(df.rows) |->
                               df.rows[i] @@ ("Breaks" :> 0)]]
             ELSE df
    ELSE EmptyFrame

\* df.to_csv(DATA_FILE, index=False): the whole file is replaced by the frame.
to_csv(df) ==
    [exists |-> TRUE,
     header |-> df.columns,
     lines |-> [i \in 1..Len(df.rows) |->
                  [c \in Range(df.columns) |->
                     IF c \in TextColumns
                     THEN FormatCell(df.rows[i][c])
                     ELSE df.rows[i][c]]]]

\* round(duration_minutes, 2): thousandths of a minute to hundredths, ties
\* to the even hundredth.
Round2(milli) ==
    LET q == milli \div 10
        r == milli % 10
    IN  IF r < 5 THEN q
        ELSE IF r > 5 THEN q + 1
        ELSE IF q % 2 = 0 THEN q ELSE q + 1

\* datetime.now().strftime("%Y-%m-%d %H:%M"): an opaque text no operation
\* of the program reads back.
Now == "now"

new_entry(subject, topic, duration_milli, breaks) ==
    [Date |-> Now,
     Subject |-> Str(subject),
     Topic |-> Str(topic),
     Duration_Minutes |-> Round2(duration_milli),
     Breaks |-> breaks]

\* pd.concat([df, new_entry], ignore_index=True)
concat(df, row) == [columns |-> df.columns, rows |-> Append(df.rows, row)]

\* The file save_session leaves behind.
save_session(f, subject, topic, duration_milli, breaks) ==
    to_csv(concat(load_data(f), new_entry(subject, topic, duration_milli, breaks)))

-----------------------------------------------------------------------------
(* Files the program may find at start-up *)

NoFile == [exists |-> FALSE, header |-> <<>>, lines |-> <<>>]
HeaderOnly == [exists |-> TRUE, header |-> Columns, lines |-> <<>>]

\* A row written before the Breaks column was introduced.
LegacyLine(subject, topic, centi) ==
    [Date |-> "old", Subject |-> subject, Topic |-> topic, Duration_Minutes |-> centi]

LegacyFile ==
    [exists |-> TRUE, header |-> LegacyColumns,
     lines |-> << LegacyLine("General", "Study Session", 2500) >>]

InitFiles == {NoFile, HeaderOnly, LegacyFile}

\* The file a save_session call leaves when it is stopped right after to_csv
\* opened DATA_FILE for writing: it exists and holds nothing.
TruncatedFile == [exists |-> TRUE, header |-> <<>>, lines |-> <<>>]

\* What kind of file an operation finds.
FileKind(f) ==
    IF ~f.exists THEN "absent"
    ELSE IF f.header = <<>> THEN "truncated"
    ELSE IF "Breaks" \notin Range(f.header) THEN "legacy"
    ELSE IF f.lines = <<>> THEN "empty"
    ELSE "populated"

\* read_csv raises on a file without a header line.
Readable(f) == ~f.exists \/ f.header # <<>>

-----------------------------------------------------------------------------
(* The timer *)

Procs == {1, 2}

\* The dashboard tab has not run in this session.
NotRun == [view |-> "none"]

IdleWriter == [pc |-> "idle", df |-> EmptyFrame, before |-> NoFile]
NoWriters == [p \in Procs |-> IdleWriter]

\* Values of the subject and topic text inputs at the moment of saving.
LabelInputs == { <<"General", "Study Session">>, <<"", "07">> }

\* initial_time / 60, in thousandths of a minute
MinutesMilli(seconds) == (seconds * 1000) \div 60

\* The state of the specification's timer state machine a session state is in.
Phase ==
    IF timer_running THEN "Running"
    ELSE IF initial_time = 0 THEN "Idle"
    ELSE IF time_left = initial_time /\ break_count = 0 THEN "Configured"
    ELSE "Paused"

\* progress that shows the share of the time that is left.
progress_left(left, initial) ==
    IF initial > 0
    THEN [num |-> left, den |-> initial]
    ELSE [num |-> 0, den |-> 1]

\* Lines 84-88: the value handed to st.progress, as the fraction num / den:
\* min(1 - time_left / initial_time, 1.0), or 0 when initial_time is 0.
progress(left, initial) ==
    IF initial > 0
    THEN IF initial - left > initial
         THEN [num |-> initial, den |-> initial]
         ELSE [num |-> initial - left, den |-> initial]
    ELSE [num |-> 0, den |-> 1]

Init ==
    /\ time_left = 0
    /\ timer_running = FALSE
    /\ initial_time = 0
    /\ break_count = 0
    /\ file \in InitFiles
    /\ total = 0
    /\ ticks = 0
    /\ pauses = 0
    /\ expiries = 0
    /\ last = [op |-> "init", from |-> "Idle"]
    /\ writers = NoWriters
    /\ dash = NotRun

\* total_seconds with the hours counted as minutes.
total_seconds_hours_as_minutes(hours, minutes) == (hours * 60) + (minutes * 60)

\* (hours * 3600) + (minutes * 60)
total_seconds(hours, minutes) == (hours * 3600) + (minutes * 60)

\* The "Set / Reset Timer" button.
SetReset(hours, minutes) ==
    /\ time_left' = total_seconds(hours, minutes)
    /\ initial_time' = total_seconds(hours, minutes)
    /\ timer_running' = FALSE
    /\ break_count' = 0
    /\ total' = total_seconds(hours, minutes)
    /\ ticks' = 0
    /\ pauses' = 0
    /\ expiries' = 0
    /\ last' = [op |-> "SetReset", from |-> Phase]
    /\ UNCHANGED <<file, writers>>
    /\ UNCHANGED dash

\* Pause without line 96: the break is not counted.
PauseUncounted ==
    /\ timer_running
    /\ break_count < MaxBreaks
    /\ timer_running' = FALSE
    /\ pauses' = pauses + 1
    /\ last' = [op |-> "Pause", from |-> Phase]
    /\ UNCHANGED <<time_left, initial_time, break_count, file, total, ticks,
                   expiries, writers>>
    /\ UNCHANGED dash

\* The "Pause" button, drawn only while the timer runs.
\* (The second conjunct is the model's bound, not the code's.)
Pause ==
    /\ timer_running
    /\ break_count < MaxBreaks
    /\ timer_running' = FALSE
    /\ break_count' = break_count + 1
    /\ pauses' = pauses + 1
    /\ last' = [op |-> "Pause", from |-> Phase]
    /\ UNCHANGED <<time_left, initial_time, file, total, ticks, expiries, writers>>
    /\ UNCHANGED dash

\* The "Start / Resume" button, drawn only while the timer does not run.
\* (The second and third conjunct are the model's bounds, not the code's.)
Start ==
    /\ ~timer_running
    /\ time_left <= MaxRunMinutes * 60
    /\ Len(file.lines) < MaxRows
    /\ timer_running' = TRUE
    /\ last' = [op |-> "Start", from |-> Phase]
    /\ UNCHANGED <<time_left, initial_time, break_count, file, writers>>
    /\ UNCHANGED histVars
    /\ UNCHANGED dash

\* Tick without the test of line 105: a second is counted even at zero.
TickUnguarded ==
    /\ timer_running
    /\ time_left' = time_left - 1
    /\ ticks' = ticks + 1
    /\ last' = [op |-> "Tick", from |-> Phase]
    /\ UNCHANGED <<timer_running, initial_time, break_count, file,
                   total, pauses, expiries, writers>>
    /\ UNCHANGED dash

\* Tick without line 107: the run sleeps and reruns, and counts nothing.
TickUncounted ==
    /\ timer_running
    /\ time_left > 0
    /\ last' = [op |-> "Tick", from |-> Phase]
    /\ UNCHANGED <<time_left, timer_running, initial_time, break_count, file,
                   total, ticks, pauses, expiries, writers>>
    /\ UNCHANGED dash

\* Tick without the test of line 104: a second is counted while paused.
TickWhilePaused ==
    /\ time_left > 0
    /\ time_left' = time_left - 1
    /\ ticks' = ticks + 1
    /\ last' = [op |-> "Tick", from |-> Phase]
    /\ UNCHANGED <<timer_running, initial_time, break_count, file,
                   total, pauses, expiries, writers>>
    /\ UNCHANGED dash

\* Timer logic, a run with time left: sleep a second, count it, rerun.
Tick ==
    /\ timer_running
    /\ time_left > 0
    /\ time_left' = time_left - 1
    /\ ticks' = ticks + 1
    /\ last' = [op |-> "Tick", from |-> Phase]
    /\ UNCHANGED <<timer_running, initial_time, break_count, file,
                   total, pauses, expiries, writers>>
    /\ UNCHANGED dash

\* Expire without line 115: the break count survives the save.
ExpireKeepsBreaks(subject, topic) ==
    /\ timer_running
    /\ ~(time_left > 0)
    /\ timer_running' = FALSE
    /\ file' = save_session(file, subject, topic,
                            MinutesMilli(initial_time), break_count)
    /\ time_left' = 0
    /\ initial_time' = 0
    /\ expiries' = expiries + 1
    /\ last' = [op |-> "Expire", from |-> Phase]
    /\ UNCHANGED <<break_count, total, ticks, pauses, writers>>
    /\ UNCHANGED dash

\* Timer logic, a run with no time left: save the session and clear the timer.
Expire(subject, topic) ==
    /\ timer_running
    /\ ~(time_left > 0)
    /\ timer_running' = FALSE
    /\ file' = save_session(file, subject, topic,
                            MinutesMilli(initial_time), break_count)
    /\ time_left' = 0
    /\ initial_time' = 0
    /\ break_count' = 0
    /\ expiries' = expiries + 1
    /\ last' = [op |-> "Expire", from |-> Phase]
    /\ UNCHANGED <<total, ticks, pauses, writers>>
    /\ UNCHANGED dash

\* A run with no button pressed while the timer does not run: the script
\* reaches the dashboard tab, which loads the history.
Refresh ==
    /\ ~timer_running
    /\ load_data(file).columns = Columns
    /\ last' = [op |-> "Refresh", from |-> Phase]
    /\ UNCHANGED <<timerVars, histVars, file, writers>>
    /\ UNCHANGED dash

Next ==
    \/ \E h \in HourChoices, m \in MinuteChoices : SetReset(h, m)
    \/ Pause
    \/ Start
    \/ Tick
    \/ \E l \in LabelInputs : Expire(l[1], l[2])
    \/ Refresh

Spec == Init /\ [][Next]_vars

\* The countdown on its own: the session starts without a history file and
\* the labels stay at their defaults; neither has a part in the countdown.
LiveInit == Init /\ file = NoFile

LiveNext ==
    \/ \E m \in MinuteChoices : SetReset(0, m)
    \/ Pause
    \/ Start
    \/ Tick
    \/ Expire("General", "Study Session")
    \/ Refresh

\* While the timer runs every script run ends in st.rerun() (lines 108 and
\* 118), which starts the next run at once: the timer logic is never left
\* waiting for an event.
SpecLive ==
    /\ LiveInit
    /\ [][LiveNext]_vars
    /\ WF_vars(Tick)
    /\ WF_vars(Expire("General", "Study Session"))

-----------------------------------------------------------------------------
(* The session store on its own: save_session and load_data called with *)
(* any session, on any file an earlier run may have left.               *)

StoreLabels == {"General", "", "NA", "07"}

\* topic, duration in thousandths of a minute, break count
StoreDetails == { <<"Study Session", 1000, 0>>, <<"", 1236, 1>>, <<"7.0", 375, 2>> }

StoreSessions ==
    { [subject |-> s, topic |-> d[1], milli |-> d[2], breaks |-> d[3]] :
        s \in StoreLabels, d \in StoreDetails }

\* Sessions no run of the interface produces, but a caller of save_session
\* can pass: a negative duration, a negative break count.
InvalidSessions ==
    { [subject |-> "General", topic |-> "Study Session", milli |-> -1000, breaks |-> 0],
      [subject |-> "General", topic |-> "Study Session", milli |-> 1000, breaks |-> -1] }

LegacyLines ==
    { LegacyLine("General", "Study Session", 2500),
      LegacyLine("07", "", 100),
      LegacyLine("", "Study Session", 12) }

LegacyFiles ==
    { [exists |-> TRUE, header |-> LegacyColumns, lines |-> ls] :
        ls \in { <<a>> : a \in LegacyLines } \cup
               { <<a, b>> : a \in LegacyLines, b \in LegacyLines } }

\* The same files as the current version writes them.
CurrentFiles ==
    { [exists |-> TRUE, header |-> Columns,
       lines |-> [i \in 1..Len(f.lines) |-> f.lines[i] @@ ("Breaks" :> i)]] :
        f \in LegacyFiles }

StoreInitFiles == {NoFile, HeaderOnly} \cup LegacyFiles \cup CurrentFiles

StoreInit ==
    /\ time_left = 0
    /\ timer_running = FALSE
    /\ initial_time = 0
    /\ break_count = 0
    /\ file \in StoreInitFiles
    /\ total = 0
    /\ ticks = 0
    /\ pauses = 0
    /\ expiries = 0
    /\ last = [op |-> "init", from |-> FileKind(file)]
    /\ writers = NoWriters
    /\ dash = NotRun

\* SessionStore.append: one call of save_session.
StoreAppend(s) ==
    /\ Len(file.lines) < MaxRows
    /\ file' = save_session(file, s.subject, s.topic, s.milli, s.breaks)
    /\ last' = [op |-> "append", from |-> FileKind(file)]
    /\ UNCHANGED <<timerVars, histVars, writers>>
    /\ UNCHANGED dash

\* SessionStore.loadAll: one call of load_data.
StoreLoad ==
    /\ load_data(file).columns = Columns
    /\ last' = [op |-> "loadAll", from |-> FileKind(file)]
    /\ UNCHANGED <<timerVars, histVars, file, writers>>
    /\ UNCHANGED dash

StoreNext ==
    \/ \E s \in StoreSessions \cup InvalidSessions : StoreAppend(s)
    \/ StoreLoad

SpecStore == StoreInit /\ [][StoreNext]_vars

-----------------------------------------------------------------------------
(* save_session step by step, with a failure possible between any two    *)
(* steps: the frame is built in memory, then to_csv opens DATA_FILE for  *)
(* writing, which empties it, and writes the header and the rows.        *)

\* Lines 24-33: the frame to write is built; nothing is on disk yet.
SaveLoad(s) ==
    /\ writers[1].pc = "idle"
    /\ Readable(file)
    /\ Len(file.lines) < MaxRows
    /\ writers' = [writers EXCEPT ![1] =
                     [pc |-> "open",
                      df |-> concat(load_data(file),
                                    new_entry(s.subject, s.topic, s.milli, s.breaks)),
                      before |-> file]]
    /\ last' = [op |-> "append", from |-> FileKind(file)]
    /\ UNCHANGED <<timerVars, histVars, file>>
    /\ UNCHANGED dash

\* Line 34: to_csv opens the file in write mode; the old content is gone.
SaveOpen ==
    /\ writers[1].pc = "open"
    /\ file' = TruncatedFile
    /\ writers' = [writers EXCEPT ![1].pc = "header"]
    /\ UNCHANGED <<timerVars, histVars, last>>
    /\ UNCHANGED dash

\* Line 34: the header line reaches the file.
SaveHeader ==
    /\ writers[1].pc = "header"
    /\ file' = [file EXCEPT !.header = writers[1].df.columns]
    /\ writers' = [writers EXCEPT ![1].pc = "rows"]
    /\ UNCHANGED <<timerVars, histVars, last>>
    /\ UNCHANGED dash

\* Line 34: the next row reaches the file.
SaveRow ==
    /\ writers[1].pc = "rows"
    /\ Len(file.lines) < Len(writers[1].df.rows)
    /\ file' = [file EXCEPT !.lines =
                  Append(@, to_csv(writers[1].df).lines[Len(file.lines) + 1])]
    /\ UNCHANGED <<timerVars, histVars, last, writers>>
    /\ UNCHANGED dash

\* Line 34: every row is written and the file is closed; save_session returns.
SaveClose ==
    /\ writers[1].pc = "rows"
    /\ Len(file.lines) = Len(writers[1].df.rows)
    /\ writers' = [writers EXCEPT ![1].pc = "done"]
    /\ UNCHANGED <<timerVars, histVars, last, file>>
    /\ UNCHANGED dash

\* The call fails (an I/O error, the process is killed) where it stands.
SaveFail ==
    /\ writers[1].pc \in {"open", "header", "rows"}
    /\ writers' = [writers EXCEPT ![1].pc = "failed"]
    /\ UNCHANGED <<timerVars, histVars, last, file>>
    /\ UNCHANGED dash

\* The caller goes on after the call returned or failed.
SaveReturn ==
    /\ writers[1].pc \in {"done", "failed"}
    /\ writers' = [writers EXCEPT ![1].pc = "idle"]
    /\ UNCHANGED <<timerVars, histVars, last, file>>
    /\ UNCHANGED dash

CrashNext ==
    \/ \E s \in StoreSessions : SaveLoad(s)
    \/ SaveOpen
    \/ SaveHeader
    \/ SaveRow
    \/ SaveClose
    \/ SaveFail
    \/ SaveReturn

SpecCrash == StoreInit /\ [][CrashNext]_vars

-----------------------------------------------------------------------------
(* Two processes, each calling save_session once on the same file: the   *)
(* load (line 24) and the rewrite (line 34) of one call are separated by *)
(* whatever the other process does; nothing locks the file.              *)

ConcLoad(p, s) ==
    /\ writers[p].pc = "idle"
    /\ writers' = [writers EXCEPT ![p] =
                     [pc |-> "loaded",
                      df |-> concat(load_data(file),
                                    new_entry(s.subject, s.topic, s.milli, s.breaks)),
                      before |-> file]]
    /\ UNCHANGED <<timerVars, histVars, last, file>>
    /\ UNCHANGED dash

\* ConcWrite that appends to the file as it is now, not as it was loaded.
ConcWriteFresh(p) ==
    /\ writers[p].pc = "loaded"
    /\ file' = to_csv(concat(load_data(file),
                             writers[p].df.rows[Len(writers[p].df.rows)]))
    /\ writers' = [writers EXCEPT ![p].pc = "done"]
    /\ UNCHANGED <<timerVars, histVars, last>>
    /\ UNCHANGED dash

ConcWrite(p) ==
    /\ writers[p].pc = "loaded"
    /\ file' = to_csv(writers[p].df)
    /\ writers' = [writers EXCEPT ![p].pc = "done"]
    /\ UNCHANGED <<timerVars, histVars, last>>
    /\ UNCHANGED dash

ConcNext ==
    \/ \E p \in Procs, s \in StoreSessions : ConcLoad(p, s)
    \/ \E p \in Procs : ConcWrite(p)

SpecConc == StoreInit /\ [][ConcNext]_vars

-----------------------------------------------------------------------------
(* The dashboard tab: what one run of it computes from the history.  The  *)
(* charts, the captions and the raw table are drawings of these values    *)
(* and are not followed.                                                   *)

\* rows the history may hold when the dashboard is explored
MaxDashRows == 3

\* df[c]: one column of the frame
Column(df, c) == [i \in 1..Len(df.rows) |-> df.rows[i][c]]

RECURSIVE sum_from(_, _)
sum_from(xs, i) == IF i > Len(xs) THEN 0 ELSE xs[i] + sum_from(xs, i + 1)

\* Series.sum()
sum(xs) == sum_from(xs, 1)

\* Series.mean() of a non-empty series, as the fraction sum / count
mean(xs) == [num |-> sum(xs), den |-> Len(xs)]

RECURSIVE idxmax_from(_, _, _)
idxmax_from(xs, i, best) ==
    IF i > Len(xs) THEN best
    ELSE idxmax_from(xs, i + 1, IF xs[i] > xs[best] THEN i ELSE best)

\* idxmax that keeps the last of several largest values.
idxmax_last(xs) ==
    CHOOSE i \in 1..Len(xs) :
        /\ \A j \in 1..Len(xs) : xs[j] <= xs[i]
        /\ \A j \in (i + 1)..Len(xs) : xs[j] < xs[i]

\* Series.idxmax() of a non-empty series: a scan that moves on only to a
\* strictly larger value.
idxmax(xs) == idxmax_from(xs, 2, 1)

RECURSIVE idxmin_from(_, _, _)
idxmin_from(xs, i, best) ==
    IF i > Len(xs) THEN best
    ELSE idxmin_from(xs, i + 1, IF xs[i] < xs[best] THEN i ELSE best)

\* Series.idxmin() of a non-empty series
idxmin(xs) == idxmin_from(xs, 2, 1)

\* Line 146: df.loc[df['Duration_Minutes'].idxmax()]
longest(df) == df.rows[idxmax(Column(df, "Duration_Minutes"))]

\* Line 150: df.loc[df['Duration_Minutes'].idxmin()]
shortest(df) == df.rows[idxmin(Column(df, "Duration_Minutes"))]

NoBreaks == [found |-> FALSE]

\* most_breaks without the test of line 154.
most_breaks_untested(df) ==
    [found |-> TRUE, row |-> df.rows[idxmax(Column(df, "Breaks"))]]

\* Lines 154-158: the row with the most breaks, or "No breaks recorded yet!"
most_breaks(df) ==
    IF sum(Column(df, "Breaks")) > 0
    THEN [found |-> TRUE, row |-> df.rows[idxmax(Column(df, "Breaks"))]]
    ELSE NoBreaks

\* add_to_group that replaces the group's total by the row's value.
put_in_group(acc, key, value) ==
    IF key.k = "nan" THEN acc
    ELSE (key :> value) @@ acc

\* groupby(...).sum(), one row: the row's value is added to the total of
\* the row's group; a row whose key is NaN belongs to no group.
add_to_group(acc, key, value) ==
    IF key.k = "nan" THEN acc
    ELSE IF key \in DOMAIN acc THEN [acc EXCEPT ![key] = @ + value]
    ELSE acc @@ (key :> value)

RECURSIVE groupby_sum_from(_, _, _, _)
groupby_sum_from(df, by, i, acc) ==
    IF i > Len(df.rows) THEN acc
    ELSE groupby_sum_from(df, by, i + 1,
                          add_to_group(acc, df.rows[i][by],
                                       df.rows[i].Duration_Minutes))

\* Line 167: df.groupby("Subject")["Duration_Minutes"].sum(), as the total
\* of each subject
subject_stats(df) == groupby_sum_from(df, "Subject", 1, <<>>)

\* Line 186: the frame is empty and nothing is computed.
NoData == [view |-> "no data"]

\* The run ended in an exception before anything was computed.
Raised == [view |-> "error"]

\* Lines 128-186.  subject_stats.idxmax() (line 171) raises when no row has
\* a subject; what was computed before it has been shown by then.
Analytics(df) ==
    IF df.rows = <<>> THEN NoData
    ELSE [view |-> IF DOMAIN subject_stats(df) = {} THEN "error" ELSE "metrics",
          total_time |-> sum(Column(df, "Duration_Minutes")),
          total_sessions |-> Len(df.rows),
          avg_time |-> mean(Column(df, "Duration_Minutes")),
          longest |-> longest(df),
          shortest |-> shortest(df),
          most_breaks |-> most_breaks(df),
          subject_stats |-> subject_stats(df)]

\* subject, duration in thousandths of a minute, break count
DashSessions ==
    { [subject |-> s, topic |-> "Study Session", milli |-> d[1], breaks |-> d[2]] :
        s \in {"General", "07", ""},
        d \in { <<1000, 0>>, <<1000, 1>>, <<2000, 0>> } }

DashInit ==
    /\ time_left = 0
    /\ timer_running = FALSE
    /\ initial_time = 0
    /\ break_count = 0
    /\ file \in InitFiles \cup {TruncatedFile}
    /\ total = 0
    /\ ticks = 0
    /\ pauses = 0
    /\ expiries = 0
    /\ last = [op |-> "init", from |-> FileKind(file)]
    /\ writers = NoWriters
    /\ dash = NotRun

\* A session is saved between two runs of the dashboard (save_session
\* raises in load_data, and writes nothing, when the file cannot be read).
DashSave(s) ==
    /\ Readable(file)
    /\ Len(file.lines) < MaxDashRows
    /\ file' = save_session(file, s.subject, s.topic, s.milli, s.breaks)
    /\ last' = [op |-> "append", from |-> FileKind(file)]
    /\ UNCHANGED <<timerVars, histVars, writers, dash>>

\* A run that reaches the dashboard tab: load_data (line 126), which raises
\* when read_csv does, then the computation.
Dashboard ==
    /\ ~timer_running
    /\ dash' = IF Readable(file) THEN Analytics(load_data(file)) ELSE Raised
    /\ last' = [op |-> "dashboard", from |-> FileKind(file)]
    /\ UNCHANGED <<timerVars, histVars, file, writers>>

DashNext ==
    \/ \E s \in DashSessions : DashSave(s)
    \/ Dashboard

SpecDash == DashInit /\ [][DashNext]_vars

-----------------------------------------------------------------------------
(* Properties *)

\* The last row of the history as load_data returns it.
LastRow(f) == load_data(f).rows[Len(f.lines)]

\* C1: after a Set / Reset with a total above zero, a session is saved for
\* that configuration exactly once, when the total-th tick has been taken,
\* and its break count is the number of pause clicks since the Set / Reset.
C1_ExpiresExactlyOnce ==
    [][ (total > 0 /\ expiries' > expiries) =>
          /\ expiries = 0
          /\ ticks = total
          /\ LastRow(file').Breaks = pauses ]_vars

\* C2: with no time left, Start / Resume changes nothing: the timer does not
\* start running, no counter changes and no session is saved.
C2_StartIsNoOpAtZero ==
    [][ (time_left = 0 /\ Start) => UNCHANGED <<timerVars, file>> ]_vars

Table(f) == load_data(f).rows

\* C4: every step leaves the history table unchanged or adds exactly one row
\* at its end; no row already there is changed, moved or removed.
C4_AppendOnly ==
    [][ \/ Table(file') = Table(file)
        \/ /\ Len(Table(file')) = Len(Table(file)) + 1
           /\ SubSeq(Table(file'), 1, Len(Table(file))) = Table(file) ]_vars

\* C5: after a save_session call that failed part-way, the file is either
\* exactly what it was before the call or the complete rewritten table.
C5_FailedAppendIsAtomic ==
    writers[1].pc = "failed" =>
        \/ file = writers[1].before
        \/ file = to_csv(writers[1].df)

\* C6: Set / Reset can be taken in every state and, from whatever phase,
\* leaves the timer not running with no breaks and time_left =
\* initial_time = hours*3600 + minutes*60, and the history file as it was.
C6_ConfigureResets ==
    /\ [](\A h \in HourChoices, m \in MinuteChoices : ENABLED SetReset(h, m))
    /\ [][ \A h \in HourChoices, m \in MinuteChoices :
            SetReset(h, m) =>
              /\ timer_running' = FALSE
              /\ break_count' = 0
              /\ time_left' = h * 3600 + m * 60
              /\ initial_time' = h * 3600 + m * 60
              /\ file' = file ]_vars

\* C6 witness: a running timer was reset to one hour; nothing was saved for
\* the abandoned run.
C6_Witness ==
    /\ last = [op |-> "SetReset", from |-> "Running"]
    /\ time_left = 3600
    /\ initial_time = 3600
    /\ ~timer_running
    /\ break_count = 0
    /\ file = NoFile

\* C7: the break count grows only by a pause, which needs a running timer,
\* stops it, adds exactly one break and leaves time_left, initial_time and
\* the history file alone; Start / Resume leaves the break count alone.
C7_PauseCountsOneBreak ==
    [][ /\ break_count' > break_count =>
              /\ timer_running
              /\ timer_running' = FALSE
              /\ break_count' = break_count + 1
              /\ UNCHANGED <<time_left, initial_time, file>>
        /\ Pause => break_count' = break_count + 1
        /\ Start => break_count' = break_count ]_vars

\* C7 witness: a timer paused and resumed before any tick shows one break.
C7_Witness ==
    /\ last = [op |-> "Start", from |-> "Paused"]
    /\ timer_running
    /\ ticks = 0
    /\ pauses = 1
    /\ break_count = 1
    /\ time_left = initial_time

\* C8: when both processes have returned from save_session, the file holds
\* the rows found at start-up followed by both new rows, unless both calls
\* loaded the file before either rewrote it: then it holds only the row of
\* the call that wrote last, and the other row is lost.
C8_LostUpdate ==
    (\A p \in Procs : writers[p].pc = "done") =>
        IF writers[1].before = writers[2].before
        THEN /\ Len(file.lines) = Len(writers[1].before.lines) + 1
             /\ file \in {to_csv(writers[p].df) : p \in Procs}
        ELSE \E p, q \in Procs :
                /\ writers[q].before = to_csv(writers[p].df)
                /\ file = to_csv(writers[q].df)
                /\ Len(file.lines) = Len(writers[p].before.lines) + 2

\* C8 witness: both calls returned and the file has one new row, not two.
C8_Witness ==
    /\ \A p \in Procs : writers[p].pc = "done"
    /\ writers[1].df # writers[2].df
    /\ Len(file.lines) = Len(writers[1].before.lines) + 1
    /\ Len(file.lines) = Len(writers[2].before.lines) + 1

\* What load_data returns for a file without the Breaks column: every row
\* of the file, with the other columns as read and Breaks = 0.
LegacyLoad(f) ==
    FileKind(f) = "legacy" =>
        /\ load_data(f).columns = Columns
        /\ Len(load_data(f).rows) = Len(f.lines)
        /\ \A i \in 1..Len(f.lines) :
              /\ load_data(f).rows[i].Breaks = 0
              /\ \A c \in Range(LegacyColumns) :
                    load_data(f).rows[i][c] = read_csv(f).rows[i][c]

C10_RoundTrip ==
    [][ \A s \in StoreSessions :
          StoreAppend(s) =>
            /\ LastRow(file').Subject = Str(s.subject)
            /\ LastRow(file').Topic = Str(s.topic)
            /\ LastRow(file').Duration_Minutes = Round2(s.milli)
            /\ LastRow(file').Breaks = s.breaks ]_vars

\* C11: in every reachable state every row of the history has a duration of
\* at least zero and a break count of at least zero, and time_left,
\* initial_time and break_count are at least zero.
C11_NonNegative ==
    /\ \A i \in 1..Len(Table(file)) :
          /\ Table(file)[i].Duration_Minutes >= 0
          /\ Table(file)[i].Breaks >= 0
    /\ time_left >= 0
    /\ initial_time >= 0
    /\ break_count >= 0

\* C11 witness: the boundary: a timer set to zero was started and expired,
\* and left a row of 0.00 minutes with no breaks.
C11_Witness ==
    /\ last.op = "Expire"
    /\ total = 0
    /\ expiries = 1
    /\ LastRow(file).Duration_Minutes = 0
    /\ LastRow(file).Breaks = 0
    /\ time_left = 0

\* C12: save_session called with a negative duration or a negative break
\* count is refused: the history table stays as it was.
C12_NegativeRejected ==
    [][ \A s \in InvalidSessions :
          StoreAppend(s) => Table(file') = Table(file) ]_vars

\* C13: every row of the history file has a subject and a topic that are
\* not empty: a label left blank is replaced by its default before the save.
C13_LabelsNonEmpty ==
    \A i \in 1..Len(file.lines) :
        /\ file.lines[i].Subject # ""
        /\ file.lines[i].Topic # ""

\* The first position of the series that holds the value v.
FirstAt(xs, v) ==
    CHOOSE i \in 1..Len(xs) : xs[i] = v /\ \A j \in 1..(i - 1) : xs[j] # v

\* The dashboard has just run on the history as it is now, and found rows.
ShownRows == last.op = "dashboard" /\ Table(file) # <<>>

\* C14: on a non-empty history the longest record is the first row, in file
\* order, whose duration is the largest of all, and the shortest record is
\* the first row whose duration is the smallest; with one row both are
\* that row.
C14_FirstExtremes ==
    ShownRows =>
        LET rows == Table(file)
            durs == [i \in 1..Len(rows) |-> rows[i].Duration_Minutes]
            hi == CHOOSE v \in Range(durs) : \A w \in Range(durs) : w <= v
            lo == CHOOSE v \in Range(durs) : \A w \in Range(durs) : w >= v
        IN  /\ dash.longest = rows[FirstAt(durs, hi)]
            /\ dash.shortest = rows[FirstAt(durs, lo)]
            /\ Len(rows) = 1 => (dash.longest = rows[1] /\ dash.shortest = rows[1])

\* C14 witness: two sessions of the same length under different subjects;
\* the first one is shown as the longest and as the shortest.
C14_Witness ==
    /\ ShownRows
    /\ Len(Table(file)) = 2
    /\ Table(file)[1] # Table(file)[2]
    /\ Table(file)[1].Duration_Minutes = Table(file)[2].Duration_Minutes
    /\ dash.longest = Table(file)[1]
    /\ dash.shortest = Table(file)[1]

\* The history file with its lines rearranged by the permutation p.
Permuted(f, p) == [f EXCEPT !.lines = [i \in 1..Len(f.lines) |-> f.lines[p[i]]]]

\* C15: the total per subject that the dashboard computes is the same for
\* every rearrangement of the rows of the history, also when a subject
\* occurs in several rows.
C15_SubjectTotalsPermutation ==
    ShownRows =>
        \A p \in Permutations(1..Len(file.lines)) :
            subject_stats(load_data(Permuted(file, p))) = dash.subject_stats

\* C15 witness: a subject occurs in the first and the third row with
\* different durations, another subject in between; its total is the sum.
C15_Witness ==
    /\ ShownRows
    /\ Len(Table(file)) = 3
    /\ Table(file)[1].Subject = Table(file)[3].Subject
    /\ Table(file)[1].Subject # Table(file)[2].Subject
    /\ Table(file)[1].Subject.k # "nan"
    /\ Table(file)[2].Subject.k # "nan"
    /\ Table(file)[1].Duration_Minutes # Table(file)[3].Duration_Minutes
    /\ dash.subject_stats[Table(file)[1].Subject] =
          Table(file)[1].Duration_Minutes + Table(file)[3].Duration_Minutes

C17_MostDistracted ==
    ShownRows =>
        LET rows == Table(file)
            brk == [i \in 1..Len(rows) |-> rows[i].Breaks]
            hi == CHOOSE v \in Range(brk) : \A w \in Range(brk) : w <= v
        IN  /\ dash.most_breaks.found <=> sum(brk) > 0
            /\ dash.most_breaks.found =>
                  dash.most_breaks.row = rows[FirstAt(brk, hi)]
            /\ (\A i \in 1..Len(rows) : brk[i] = 0) => dash.most_breaks = NoBreaks

\* C17 witness: the second and the third of three sessions had one break
\* each, the first none; the second is named.
C17_Witness ==
    /\ ShownRows
    /\ Len(Table(file)) = 3
    /\ Table(file)[1].Breaks = 0
    /\ Table(file)[2].Breaks = 1
    /\ Table(file)[3].Breaks = 1
    /\ Table(file)[2] # Table(file)[3]
    /\ dash.most_breaks = [found |-> TRUE, row |-> Table(file)[2]]

\* C18: in every reachable state 0 <= time_left <= initial_time; the
\* progress shown is a fraction between 0 and 1, and it is 1 exactly when
\* time_left = 0 with initial_time > 0.
C18_ProgressInUnitInterval ==
    LET p == progress(time_left, initial_time)
    IN  /\ 0 <= time_left
        /\ time_left <= initial_time
        /\ p.den > 0
        /\ 0 <= p.num
        /\ p.num <= p.den
        /\ p.num = p.den <=> (time_left = 0 /\ initial_time > 0)

\* C18 witness: the last second of a one-minute countdown has been counted
\* and the expiry run has not yet come: the bar is full.
C18_Witness ==
    /\ last.op = "Tick"
    /\ timer_running
    /\ time_left = 0
    /\ initial_time = 60
    /\ progress(time_left, initial_time) = [num |-> 60, den |-> 60]

\* C19: time passing changes the state only through ticks of a running
\* timer: a tick needs a running timer with time left, lowers time_left by
\* exactly one and leaves initial_time, break_count, timer_running and the
\* history file alone; an idle refresh needs a timer that does not run and
\* changes no timer field and not the file; and time_left is lowered by no
\* step other than a tick or a Set / Reset.
C19_OnlyTickCountsDown ==
    [][ /\ Tick =>
              /\ timer_running
              /\ time_left > 0
              /\ time_left' = time_left - 1
              /\ UNCHANGED <<initial_time, break_count, timer_running, file>>
        /\ Refresh =>
              /\ ~timer_running
              /\ UNCHANGED <<timerVars, file>>
        /\ time_left' < time_left =>
              \/ last'.op = "SetReset"
              \/ timer_running /\ time_left' = time_left - 1
        /\ ~timer_running =>
              \/ UNCHANGED <<time_left, initial_time, break_count, file>>
              \/ last'.op = "SetReset" ]_vars

\* C19 witness: a paused countdown, part of its time gone, has been
\* refreshed and stands where the pause left it.
C19_Witness ==
    /\ last = [op |-> "Refresh", from |-> "Paused"]
    /\ ~timer_running
    /\ ticks > 0
    /\ time_left = initial_time - ticks
    /\ break_count = 1
    /\ pauses = 1

\* C20: a running timer with time left does not run forever: unless the
\* user pauses or resets it first, the countdown reaches zero, the session
\* is saved and the timer is idle again, not running.
C20_RunningTimerExpires ==
    (timer_running /\ time_left > 0) ~>
        \/ last.op \in {"Pause", "SetReset"}
        \/ /\ last.op = "Expire"
           /\ ~timer_running
           /\ Phase = "Idle"
           /\ Len(file.lines) > 0
           /\ expiries > 0

\* C20 witness: a one-minute countdown ran from start to expiry with no
\* pause and no reset in between, and its session is in the file.
C20_Witness ==
    /\ last.op = "Expire"
    /\ total = 60
    /\ ticks = 60
    /\ pauses = 0
    /\ expiries = 1
    /\ ~timer_running
    /\ Phase = "Idle"
    /\ LastRow(file).Duration_Minutes = 100
    /\ LastRow(file).Breaks = 0

====
